---- MODULE Spec2Model ----
(***************************************************************************)
(* Model of scripts/export-chromadb.py: the export of a ChromaDB           *)
(* collection to one JSON document, with three 3-D projections of the      *)
(* embeddings, each rescaled by normalize_projection.                      *)
(*                                                                         *)
(* Three specifications share the variables:                               *)
(*   Spec      one run of export_chromadb, step by step;                   *)
(*   SpecNorm  normalize_projection as a pure function of (points, scale); *)
(*   SpecPerp  the t-SNE perplexity as a pure function of n_samples.       *)
(*                                                                         *)
(* Reals are exact rationals [num, den] with den > 0; Python values that   *)
(* may be None are tagged records.                                         *)
(***************************************************************************)
EXTENDS Integers, Sequences, FiniteSets, TLC

VARIABLES
    pc,               \* position of the run inside export_chromadb
    collection_name,  \* argument: the collection asked for
    limit,            \* argument: None or an integer
    skip_projections, \* argument
    store,            \* the records of the stored collection, in store order
    doc_mode,         \* how the store answers "documents": absent / full / sparse
    meta_mode,        \* how the store answers "metadatas"
    projections,      \* compute_projections: the dict being filled
    data,             \* the response of collection.get
    output,           \* the dict built by export_chromadb
    invoked,          \* the projection algorithms called so far, with parameters
    file,             \* the destination file
    file_before,      \* the destination file as it was when the run started
    exit_status,      \* "running", "returned", "exit1" (exit(1)) or "raised"
    listed,           \* the collection names printed on a missing collection
    reads,            \* number of collection.get calls
    n_samples,        \* compute_projections: len(embeddings)
    perplexity,       \* compute_projections: the value passed to TSNE
    points,           \* normalize_projection: argument
    scale,            \* normalize_projection: argument
    normalized        \* normalize_projection: result

vars == <<pc, collection_name, limit, skip_projections, store, doc_mode, meta_mode,
          projections, data, output, invoked, file, file_before, exit_status, listed,
          reads, n_samples, perplexity, points, scale, normalized>>

-----------------------------------------------------------------------------
(* Bounds of the model *)

MaxDocs == 7        \* records in the stored collection: 0..MaxDocs
MaxLimit == 2       \* --limit values: None, 0..MaxLimit
MaxDim == 3         \* embedding dimension D: 1..MaxDim
MaxSeed == 1        \* library layouts per method: 0..MaxSeed
MaxPoints == 2      \* SpecNorm: rows of the point matrix, 1..MaxPoints
MaxCoord == 2       \* SpecNorm: coordinates 0..MaxCoord
MaxSamples == 160   \* SpecPerp: n_samples 1..MaxSamples

(* Program constants *)

DefaultScale == 40      \* normalize_projection(points, scale=40.0)
NComponents == 3        \* n_components=3 of PCA, UMAP and TSNE
NNeighbors == 15        \* umap.UMAP(n_neighbors=15)
MinPerplexity == 5      \* max(5, ...)
MaxPerplexity == 30     \* min(30, ...)
PerplexityDivisor == 5  \* n_samples // 5

-----------------------------------------------------------------------------
(* Python values *)

Axes == 1..NComponents

PyNone == [tag |-> "None"]
PyStr(s) == [tag |-> "str", v |-> s]
PyDict(pairs) == [tag |-> "dict", v |-> pairs]
PyList(seq) == [tag |-> "list", v |-> seq]
F32(x) == [tag |-> "float32", v |-> x]
IsNone(x) == x.tag = "None"

PyInt(n) == [tag |-> "int", v |-> n]

MinOf(S) == CHOOSE x \in S : \A y \in S : x <= y
MaxOf(S) == CHOOSE x \in S : \A y \in S : x >= y

(* Exact rationals: the value num/den, den > 0 *)
RatDiv(x, r) == [num |-> x, den |-> r]
RatSubHalf(q) == [num |-> 2 * q.num - q.den, den |-> 2 * q.den]
RatTimes(q, s) == [num |-> q.num * s, den |-> q.den]
RatLeq(a, b) == a.num * b.den <= b.num * a.den
RatEq(a, b) == a.num * b.den = b.num * a.den
RatNeg(a) == [num |-> 0 - a.num, den |-> a.den]
Half(s) == [num |-> s, den |-> 2]

-----------------------------------------------------------------------------
(* normalize_projection *)

MinVals(pts) == [a \in Axes |-> MinOf({pts[i][a] : i \in 1..Len(pts)})]
MaxVals(pts) == [a \in Axes |-> MaxOf({pts[i][a] : i \in 1..Len(pts)})]

\* Mutant: the zero ranges are left as they are
FixZeroRanges_Unguarded(ranges) == ranges

\* ranges[ranges == 0] = 1
FixZeroRanges(ranges) == [a \in Axes |-> IF ranges[a] = 0 THEN 1 ELSE ranges[a]]

Ranges(pts) == FixZeroRanges([a \in Axes |-> MaxVals(pts)[a] - MinVals(pts)[a]])

\* Mutant: the centring "- 0.5" is forgotten
NormalizeValue_NotCentred(p, lo, r, s) == RatTimes(RatDiv(p - lo, r), s)

\* normalized = (points - min_vals) / ranges - 0.5 ; normalized *= scale
NormalizeValue(p, lo, r, s) == RatTimes(RatSubHalf(RatDiv(p - lo, r)), s)

normalize_projection(pts, s) ==
    LET lo == MinVals(pts)
        r == Ranges(pts)
    IN  [i \in 1..Len(pts) |-> [a \in Axes |-> NormalizeValue(pts[i][a], lo[a], r[a], s)]]

-----------------------------------------------------------------------------
(* The vector store (chromadb), as seen through the calls the script makes *)

StoreCollections == {"conversations"}
Texts == <<"alpha", "", "gamma">>

\* Record i of the stored collection.  Embeddings are float32 vectors, all of
\* dimension d; a record added without a document or without metadata is
\* answered with None in that position.
StoreRecord(i, d, dm, mm) ==
    [id |-> i,
     embedding |-> [k \in 1..d |-> F32(10 * i + k)],
     document |-> IF dm = "sparse" /\ i % 2 = 1 THEN PyNone
                  ELSE PyStr(Texts[(i % 3) + 1]),
     metadata |-> IF mm = "sparse" /\ i % 2 = 0 THEN PyNone
                  ELSE PyDict({<<"session", i>>})]

MakeStore(m, d, dm, mm) == [i \in 1..m |-> StoreRecord(i, d, dm, mm)]

\* `if limit:` is false for None and for 0
Truthy(l) == ~IsNone(l) /\ l.v # 0

\* collection.get(include=[...], limit=limit) / collection.get(include=[...])
CollectionGet(recs, l, dm, mm) ==
    LET n == IF Truthy(l) /\ l.v < Len(recs) THEN l.v ELSE Len(recs)
    IN  [ids |-> [i \in 1..n |-> recs[i].id],
         embeddings |-> PyList([i \in 1..n |-> recs[i].embedding]),
         documents |-> IF dm = "absent" THEN PyNone
                       ELSE PyList([i \in 1..n |-> recs[i].document]),
         metadatas |-> IF mm = "absent" THEN PyNone
                       ELSE PyList([i \in 1..n |-> recs[i].metadata])]

-----------------------------------------------------------------------------
(* export_chromadb: assembling the output *)

\* x = data.get(key); if x is None: x = []
OrEmpty(x) == IF IsNone(x) THEN <<>> ELSE x.v

\* float(x): the Python float with the value of the float32 x
Float(x) == [tag |-> "float", v |-> x.v]

EmbeddingDim(embeddings) == IF Len(embeddings) > 0 THEN Len(embeddings[1]) ELSE 0

\* Mutant: the embedding is read at the index embedding_dim is read at
DocumentAt_FirstEmbedding(d, i) ==
    LET embeddings == OrEmpty(d.embeddings)
        documents == OrEmpty(d.documents)
        metadatas == OrEmpty(d.metadatas)
    IN  [id |-> d.ids[i],
         text |-> IF i <= Len(documents) THEN documents[i] ELSE PyStr(""),
         embedding |-> IF i <= Len(embeddings)
                       THEN [k \in 1..Len(embeddings[1]) |-> Float(embeddings[1][k])]
                       ELSE <<>>,
         metadata |-> IF i <= Len(metadatas) THEN metadatas[i] ELSE PyDict({})]

DocumentAt(d, i) ==
    LET embeddings == OrEmpty(d.embeddings)
        documents == OrEmpty(d.documents)
        metadatas == OrEmpty(d.metadatas)
    IN  [id |-> d.ids[i],
         text |-> IF i <= Len(documents) THEN documents[i] ELSE PyStr(""),
         embedding |-> IF i <= Len(embeddings)
                       THEN [k \in 1..Len(embeddings[i]) |-> Float(embeddings[i][k])]
                       ELSE <<>>,
         metadata |-> IF i <= Len(metadatas) THEN metadatas[i] ELSE PyDict({})]

\* Mutant: the comprehension stops one row early
BuildOutput_OneShort(d) ==
    [metadata |-> [name |-> "Claude Memory",
                   embedding_model |-> "sentence-transformers/all-mpnet-base-v2",
                   embedding_dim |-> EmbeddingDim(OrEmpty(d.embeddings)),
                   count |-> Len(d.ids)],
     documents |-> [i \in 1..(Len(d.ids) - 1) |-> DocumentAt(d, i)]]

BuildOutput(d) ==
    [metadata |-> [name |-> "Claude Memory",
                   embedding_model |-> "sentence-transformers/all-mpnet-base-v2",
                   embedding_dim |-> EmbeddingDim(OrEmpty(d.embeddings)),
                   count |-> Len(d.ids)],
     documents |-> [i \in 1..Len(d.ids) |-> DocumentAt(d, i)]]

\* output["projections"] = ...
WithProjections(out, projs) ==
    [k \in DOMAIN out \cup {"projections"} |->
        IF k = "projections" THEN projs ELSE out[k]]

-----------------------------------------------------------------------------
(* compute_projections: the three library calls *)

NoProjections == [m \in {} |-> <<>>]
SetMethod(projs, method, rows) ==
    [m \in DOMAIN projs \cup {method} |-> IF m = method THEN rows ELSE projs[m]]

\* What fit_transform returns: one row of NComponents reals per input row.
\* The layouts are drawn from a bounded family; seed 0 is the layout with all
\* points identical.
LibLayout(n, seed, salt) ==
    [i \in 1..n |-> [a \in Axes |-> ((i * seed * (a + salt)) % 5) - 2]]

\* sklearn PCA: n_components must lie in 0..min(n_samples, n_features)
PCAAccepts(n, d) == NComponents <= n /\ NComponents <= d

\* sklearn TSNE: perplexity must be less than n_samples
TSNEAccepts(n, perp) == perp < n

\* Mutant: min and max exchanged, max(30, min(5, n_samples // 5))
Perplexity_Swapped(n) ==
    LET q == n \div PerplexityDivisor
        lo == IF q < MinPerplexity THEN q ELSE MinPerplexity
    IN  IF lo > MaxPerplexity THEN lo ELSE MaxPerplexity

\* perplexity = min(30, max(5, n_samples // 5))
Perplexity(n) ==
    LET q == n \div PerplexityDivisor
        lo == IF q > MinPerplexity THEN q ELSE MinPerplexity
    IN  IF lo < MaxPerplexity THEN lo ELSE MaxPerplexity

-----------------------------------------------------------------------------
(* One run of export_chromadb *)

Modes == {"absent", "full", "sparse"}
Limits == {PyNone} \cup {PyInt(l) : l \in 0..MaxLimit}
AbsentFile == [tag |-> "absent"]
OldFile == [tag |-> "old"]

\* The locals of compute_projections and normalize_projection before any call
LocalsIdle ==
    /\ projections = NoProjections
    /\ n_samples = 0
    /\ perplexity = 0
    /\ points = <<>>
    /\ scale = DefaultScale
    /\ normalized = <<>>

\* The state of a run that has not fetched or written anything
RunIdle ==
    /\ data = PyNone
    /\ output = PyNone
    /\ invoked = <<>>
    /\ exit_status = "running"
    /\ listed = {}
    /\ reads = 0

Init ==
    /\ pc = "start"
    /\ collection_name \in {"conversations", "memories"}
    /\ limit \in Limits
    /\ skip_projections \in BOOLEAN
    /\ doc_mode \in Modes
    /\ meta_mode \in Modes
    /\ \E m \in 0..MaxDocs, d \in 1..MaxDim : store = MakeStore(m, d, doc_mode, meta_mode)
    /\ file \in {AbsentFile, OldFile}
    /\ file_before = file
    /\ RunIdle
    /\ LocalsIdle

\* client.get_collection(collection_name), and the except branch
GetCollection ==
    /\ pc = "start"
    /\ IF collection_name \in StoreCollections
       THEN /\ pc' = "opened"
            /\ UNCHANGED <<listed, exit_status>>
       ELSE /\ listed' = StoreCollections
            /\ exit_status' = "exit1"
            /\ pc' = "exited"
    /\ UNCHANGED <<collection_name, limit, skip_projections, store, doc_mode, meta_mode,
                   projections, data, output, invoked, file, file_before, reads,
                   n_samples, perplexity, points, scale, normalized>>

\* data = collection.get(...)
Fetch ==
    /\ pc = "opened"
    /\ data' = CollectionGet(store, limit, doc_mode, meta_mode)
    /\ reads' = reads + 1
    /\ pc' = "fetched"
    /\ UNCHANGED <<collection_name, limit, skip_projections, store, doc_mode, meta_mode,
                   projections, output, invoked, file, file_before, exit_status, listed,
                   n_samples, perplexity, points, scale, normalized>>

\* Mutant: the destination is opened and written before the projections
Assemble_WritesEarly ==
    /\ pc = "fetched"
    /\ output' = BuildOutput(data)
    /\ file' = [tag |-> "json", v |-> output']
    /\ pc' = "assembled"
    /\ UNCHANGED <<collection_name, limit, skip_projections, store, doc_mode, meta_mode,
                   projections, data, invoked, file_before, exit_status, listed,
                   reads, n_samples, perplexity, points, scale, normalized>>

\* output = {"metadata": ..., "documents": [...]}
Assemble ==
    /\ pc = "fetched"
    /\ output' = BuildOutput(data)
    /\ pc' = "assembled"
    /\ UNCHANGED <<collection_name, limit, skip_projections, store, doc_mode, meta_mode,
                   projections, data, invoked, file, file_before, exit_status, listed,
                   reads, n_samples, perplexity, points, scale, normalized>>

\* Mutant: the flag is ignored
WantsProjections_IgnoresSkip == Len(OrEmpty(data.embeddings)) > 0

\* Mutant: the emptiness test is missing
WantsProjections_IgnoresEmpty == ~skip_projections

\* if not skip_projections and len(embeddings) > 0
WantsProjections == ~skip_projections /\ Len(OrEmpty(data.embeddings)) > 0

\* the else branch: print("Skipping projection computation.")
SkipProjections ==
    /\ pc = "assembled"
    /\ ~WantsProjections
    /\ pc' = "ready"
    /\ UNCHANGED <<collection_name, limit, skip_projections, store, doc_mode, meta_mode,
                   projections, data, output, invoked, file, file_before, exit_status,
                   listed, reads, n_samples, perplexity, points, scale, normalized>>

\* compute_projections, up to projections["pca"]
ComputePCA ==
    /\ pc = "assembled"
    /\ WantsProjections
    /\ n_samples' = Len(OrEmpty(data.embeddings))
    /\ invoked' = Append(invoked, [method |-> "pca", param |-> NComponents])
    /\ IF PCAAccepts(n_samples', EmbeddingDim(OrEmpty(data.embeddings)))
       THEN /\ \E seed \in 0..MaxSeed :
                 projections' = SetMethod(NoProjections, "pca",
                     normalize_projection(LibLayout(n_samples', seed, 0), DefaultScale))
            /\ pc' = "pca_done"
            /\ UNCHANGED exit_status
       ELSE /\ pc' = "failed"
            /\ exit_status' = "raised"
            /\ UNCHANGED projections
    /\ UNCHANGED <<collection_name, limit, skip_projections, store, doc_mode, meta_mode,
                   data, output, file, file_before, listed, reads, perplexity, points,
                   scale, normalized>>

\* compute_projections, up to projections["umap"].  UMAP truncates n_neighbors
\* to n_samples - 1 when the corpus is smaller than n_neighbors.
ComputeUMAP ==
    /\ pc = "pca_done"
    /\ invoked' = Append(invoked, [method |-> "umap", param |-> NNeighbors])
    /\ \E seed \in 0..MaxSeed :
         projections' = SetMethod(projections, "umap",
             normalize_projection(LibLayout(n_samples, seed, 1), DefaultScale))
    /\ pc' = "umap_done"
    /\ UNCHANGED <<collection_name, limit, skip_projections, store, doc_mode, meta_mode,
                   data, output, file, file_before, exit_status, listed, reads,
                   n_samples, perplexity, points, scale, normalized>>

\* compute_projections, up to its return, and output["projections"] = ...
ComputeTSNE ==
    /\ pc = "umap_done"
    /\ perplexity' = Perplexity(n_samples)
    /\ invoked' = Append(invoked, [method |-> "tsne", param |-> perplexity'])
    /\ IF TSNEAccepts(n_samples, perplexity')
       THEN /\ \E seed \in 0..MaxSeed :
                 projections' = SetMethod(projections, "tsne",
                     normalize_projection(LibLayout(n_samples, seed, 2), DefaultScale))
            /\ output' = WithProjections(output, projections')
            /\ pc' = "ready"
            /\ UNCHANGED exit_status
       ELSE /\ pc' = "failed"
            /\ exit_status' = "raised"
            /\ UNCHANGED <<projections, output>>
    /\ UNCHANGED <<collection_name, limit, skip_projections, store, doc_mode, meta_mode,
                   data, file, file_before, listed, reads, n_samples, points, scale,
                   normalized>>

\* json.dump(output, f): the document as written
JsonDump(out) == [tag |-> "json", v |-> out]

\* mkdir(parents=True, exist_ok=True); open(output_path, "w"); json.dump(output, f)
WriteFile ==
    /\ pc = "ready"
    /\ file' = JsonDump(output)
    /\ exit_status' = "returned"
    /\ pc' = "done"
    /\ UNCHANGED <<collection_name, limit, skip_projections, store, doc_mode, meta_mode,
                   projections, data, output, invoked, file_before, listed, reads,
                   n_samples, perplexity, points, scale, normalized>>

Next ==
    \/ GetCollection
    \/ Fetch
    \/ Assemble
    \/ SkipProjections
    \/ ComputePCA
    \/ ComputeUMAP
    \/ ComputeTSNE
    \/ WriteFile

Spec == Init /\ [][Next]_vars

-----------------------------------------------------------------------------
(* normalize_projection alone, over every small point matrix and scale *)

Coords == 0..MaxCoord
PointMatrices ==
    UNION {[1..n -> [Axes -> Coords]] : n \in 1..MaxPoints}
Scales == {1, DefaultScale}

\* Everything outside the function under test, held fixed
PipelineIdle ==
    /\ collection_name = "conversations"
    /\ limit = PyNone
    /\ skip_projections = FALSE
    /\ store = <<>>
    /\ doc_mode = "full"
    /\ meta_mode = "full"
    /\ file = AbsentFile
    /\ file_before = AbsentFile
    /\ RunIdle

InitNorm ==
    /\ pc = "norm_call"
    /\ points \in PointMatrices
    /\ scale \in Scales
    /\ normalized = <<>>
    /\ projections = NoProjections
    /\ n_samples = 0
    /\ perplexity = 0
    /\ PipelineIdle

NormalizeCall ==
    /\ pc = "norm_call"
    /\ normalized' = normalize_projection(points, scale)
    /\ pc' = "norm_done"
    /\ UNCHANGED <<collection_name, limit, skip_projections, store, doc_mode, meta_mode,
                   projections, data, output, invoked, file, file_before, exit_status,
                   listed, reads, n_samples, perplexity, points, scale>>

NextNorm == NormalizeCall

SpecNorm == InitNorm /\ [][NextNorm]_vars

-----------------------------------------------------------------------------
(* The perplexity computation alone, over corpus sizes 1..MaxSamples *)

InitPerp ==
    /\ pc = "perp_call"
    /\ n_samples \in 1..MaxSamples
    /\ perplexity = 0
    /\ projections = NoProjections
    /\ points = <<>>
    /\ scale = DefaultScale
    /\ normalized = <<>>
    /\ PipelineIdle

PerplexityCall ==
    /\ pc = "perp_call"
    /\ perplexity' = Perplexity(n_samples)
    /\ pc' = "perp_done"
    /\ UNCHANGED <<collection_name, limit, skip_projections, store, doc_mode, meta_mode,
                   projections, data, output, invoked, file, file_before, exit_status,
                   listed, reads, n_samples, points, scale, normalized>>

NextPerp == PerplexityCall

SpecPerp == InitPerp /\ [][NextPerp]_vars

-----------------------------------------------------------------------------
(* Properties *)

Methods == {"pca", "umap", "tsne"}
Fetched == pc \in {"fetched", "assembled", "pca_done", "umap_done", "ready", "done", "failed"}
Assembled == pc \in {"assembled", "pca_done", "umap_done", "ready", "done", "failed"}
HasProjections(out) == "projections" \in DOMAIN out
ZeroRange(pts, a) == MaxVals(pts)[a] = MinVals(pts)[a]

\* C1: for every non-empty point matrix and every scale > 0, every value
\* returned by normalize_projection lies in [-scale/2, +scale/2] on every
\* axis, one output row per input row (checked under SpecNorm, default scale
\* 40 included, which is the scale export_chromadb uses).
C1_Bounded ==
    pc = "norm_done" =>
        /\ Len(normalized) = Len(points)
        /\ \A i \in 1..Len(normalized) : \A a \in Axes :
              /\ normalized[i][a].den > 0
              /\ RatLeq(RatNeg(Half(scale)), normalized[i][a])
              /\ RatLeq(normalized[i][a], Half(scale))

\* C1 witness: with the default scale, one point sits on the upper face
\* (+20) and another on the lower face (-20) of the box.
C1_Witness ==
    /\ pc = "norm_done"
    /\ scale = DefaultScale
    /\ \E i, j \in 1..Len(normalized) : \E a \in Axes :
          /\ RatEq(normalized[i][a], Half(scale))
          /\ RatEq(normalized[j][a], RatNeg(Half(scale)))

\* C9: on an axis of zero range no division by zero occurs and every output
\* equals -0.5*scale; an axis of non-zero range is rescaled with its own
\* minimum and range, whatever the other axes are.
C9_ZeroRange ==
    pc = "norm_done" =>
        \A a \in Axes : \A i \in 1..Len(points) :
            /\ normalized[i][a].den # 0
            /\ IF ZeroRange(points, a)
               THEN RatEq(normalized[i][a], RatNeg(Half(scale)))
               ELSE RatEq(normalized[i][a],
                          [num |-> scale * (2 * (points[i][a] - MinVals(points)[a])
                                            - (MaxVals(points)[a] - MinVals(points)[a])),
                           den |-> 2 * (MaxVals(points)[a] - MinVals(points)[a])])

\* C9 witness: a matrix of two rows with one axis of zero range next to an
\* axis of non-zero range has been normalised.
C9_Witness ==
    /\ pc = "norm_done"
    /\ Len(points) = 2
    /\ \E a, b \in Axes : ZeroRange(points, a) /\ ~ZeroRange(points, b)

\* C10: the perplexity passed to t-SNE is clamp(N // 5, 5, 30): 5 for N < 30,
\* N // 5 for 25 <= N <= 150, 30 for N >= 150, always within [5, 30] and
\* never below the perplexity of a smaller corpus.
C10_Perplexity ==
    pc = "perp_done" =>
        /\ n_samples < 30 => perplexity = 5
        /\ (25 <= n_samples /\ n_samples <= 150) => perplexity = n_samples \div 5
        /\ n_samples >= 150 => perplexity = 30
        /\ 5 <= perplexity /\ perplexity <= 30
        /\ \A m \in 1..n_samples : Perplexity(m) <= perplexity

\* C10 witness: a corpus of 100 documents got perplexity 20.
C10_Witness == pc = "perp_done" /\ n_samples = 100 /\ perplexity = 20

\* C2: in every run that writes a document, every method present under
\* "projections" has as many rows as there are documents, which is the
\* number of ids the source returned, and every row is a 3-tuple.
C2_Aligned ==
    pc = "done" =>
        /\ Len(file.v.documents) = Len(data.ids)
        /\ HasProjections(file.v) =>
              \A m \in DOMAIN file.v.projections :
                  /\ Len(file.v.projections[m]) = Len(file.v.documents)
                  /\ \A i \in 1..Len(file.v.projections[m]) :
                        DOMAIN file.v.projections[m][i] = 1..3

\* C2 witness: a document with projections over at least six rows is written.
C2_Witness ==
    /\ pc = "done"
    /\ HasProjections(file.v)
    /\ DOMAIN file.v.projections # {}
    /\ Len(file.v.documents) >= 6

\* C6: the written document has the "projections" key exactly when
\* projections were not skipped and the corpus is non-empty; with the skip
\* flag no algorithm is invoked; when present the key holds exactly pca, umap
\* and tsne, invoked in that order, each over all N rows.
C6_ProjectionsKey ==
    pc = "done" =>
        /\ HasProjections(file.v) <=> (~skip_projections /\ Len(data.ids) >= 1)
        /\ skip_projections => invoked = <<>>
        /\ HasProjections(file.v) =>
              /\ DOMAIN file.v.projections = Methods
              /\ [i \in 1..Len(invoked) |-> invoked[i].method] = <<"pca", "umap", "tsne">>
              /\ n_samples = Len(data.embeddings.v)
              /\ \A m \in Methods : Len(file.v.projections[m]) = Len(data.embeddings.v)

\* C6 witness: a run without the skip flag wrote the three projections.
C6_Witness ==
    /\ pc = "done"
    /\ ~skip_projections
    /\ HasProjections(file.v)
    /\ Len(invoked) = 3

\* C5: on an empty collection the run does not raise, invokes none of the
\* projection algorithms, always has a next step until it has written, and
\* writes documents == [], count == 0, embedding_dim == 0 and no
\* "projections" key.
C5_EmptyCollection ==
    (collection_name \in StoreCollections /\ Len(store) = 0) =>
        /\ pc \notin {"failed", "exited"}
        /\ exit_status # "raised"
        /\ invoked = <<>>
        /\ pc # "done" => ENABLED Next
        /\ pc = "done" =>
              /\ file.tag = "json"
              /\ DOMAIN file.v = {"metadata", "documents"}
              /\ file.v.documents = <<>>
              /\ file.v.metadata.count = 0
              /\ file.v.metadata.embedding_dim = 0

\* C5 witness: a run over an empty collection, projections requested, has
\* written its document.
C5_Witness ==
    /\ pc = "done"
    /\ Len(store) = 0
    /\ ~skip_projections
    /\ file.tag = "json"

\* C4: a run that aborts leaves the destination as it was; the destination
\* changes only in the final write, and then holds the whole assembled
\* export, projections included when they were requested; on a missing
\* collection the run lists the collections that exist and exits with
\* status 1 without having read any data.
C4_NoPartialOutput ==
    /\ pc # "done" => file = file_before
    /\ pc = "done" =>
          /\ file = JsonDump(output)
          /\ output.metadata.count = Len(data.ids)
          /\ Len(output.documents) = Len(data.ids)
          /\ WantsProjections => (HasProjections(output)
                                  /\ DOMAIN output.projections = Methods)
    /\ pc = "exited" =>
          /\ exit_status = "exit1"
          /\ listed = StoreCollections
          /\ reads = 0
          /\ data = PyNone
    /\ collection_name \notin StoreCollections => pc \in {"start", "exited"}

\* C4 witness: a run has aborted inside the projections, after the fetch
\* and the assembly, while an older file was at the destination.
C4_Witness ==
    /\ pc = "failed"
    /\ reads = 1
    /\ file_before = OldFile
    /\ file = OldFile

\* C7: the output documents are the source rows in source order: document i
\* carries ids[i], texts[i], metadatas[i] and the values of embedding i, none
\* dropped, and metadata.count is N.
C7_PositionalJoin ==
    Assembled =>
        /\ Len(output.documents) = Len(data.ids)
        /\ output.metadata.count = Len(data.ids)
        /\ \A i \in 1..Len(data.ids) :
              /\ output.documents[i].id = data.ids[i]
              /\ ~IsNone(data.documents) =>
                    output.documents[i].text = data.documents.v[i]
              /\ ~IsNone(data.metadatas) =>
                    output.documents[i].metadata = data.metadatas.v[i]
              /\ Len(output.documents[i].embedding) = Len(data.embeddings.v[i])
              /\ \A k \in 1..Len(data.embeddings.v[i]) :
                    output.documents[i].embedding[k].v = data.embeddings.v[i][k].v
        /\ pc = "done" => file.v.documents = output.documents

\* C7 witness: a document of at least two rows, texts and metadata present,
\* has been written.
C7_Witness ==
    /\ pc = "done"
    /\ Len(data.ids) >= 2
    /\ doc_mode = "full"
    /\ meta_mode = "full"

\* C8 (as claimed): a missing text is exported as "" and a missing metadata
\* as {}, whether the whole array or a single entry is missing, and the run
\* does not fail on it.
TextMissing(i) == IsNone(data.documents) \/ IsNone(data.documents.v[i])
MetadataMissing(i) == IsNone(data.metadatas) \/ IsNone(data.metadatas.v[i])

C8_MissingDefaults ==
    Assembled =>
        \A i \in 1..Len(data.ids) :
            /\ TextMissing(i) => output.documents[i].text = PyStr("")
            /\ MetadataMissing(i) => output.documents[i].metadata = PyDict({})

\* C3 (as claimed): a corpus of one document, of an embedding dimension of
\* at least three, projections requested, does not make the run raise, and
\* what it writes holds one document and one 3-tuple per method.
C3_SingleDocument ==
    (Fetched /\ Len(data.ids) = 1 /\ ~skip_projections
        /\ EmbeddingDim(OrEmpty(data.embeddings)) >= NComponents) =>
        /\ exit_status # "raised"
        /\ pc = "done" =>
              /\ Len(file.v.documents) = 1
              /\ HasProjections(file.v)
              /\ \A m \in Methods : Len(file.v.projections[m]) = 1

====
